---- MODULE Spec2Model ----
(***************************************************************************)
(* Model of the Redis-backed message queue (package queue, RedisQueue):    *)
(* Publish, PublishDelayed, Subscribe, the per-Subscribe consumer loop,     *)
(* the processing goroutine with its retry / dead-letter policy, the        *)
(* delayed-message scheduler and Close.                                     *)
(*                                                                         *)
(* Time is counted in ticks of 1/TicksPerSec second so that instants and    *)
(* delays that are not whole seconds exist; Unix() truncates to seconds.    *)
(* Serialized bytes are modelled by the record they decode to.  A payload   *)
(* is [raw, wraps]: the producer's serialized payload and, outermost        *)
(* first, the headers of the envelopes that json.Marshal nested around it.  *)
(* The fields org and due of an envelope are history fields (the number of  *)
(* the producer call the bytes descend from, and the exact instant          *)
(* now + delay of the last PublishDelayed); no action reads them.           *)
(* loops[t] counts the consume goroutines of topic t that are inside        *)
(* BRPop; held is the set of entries popped by a loop that is waiting for   *)
(* a worker token.                                                          *)
(***************************************************************************)
EXTENDS Integers, Sequences, FiniteSets, TLC

\* ---------------------------------------------------------------- bounds
MaxPool == 2
MaxTime == 2
MaxPublish == 2
MaxSubscribe == 2
MaxDelay == 3
MaxFails == 1
\* the retry-chain specification: one handler, a long clock
RetryMaxTime == 13
RetryMaxFails == 4
\* the fan-out specification: many handlers on one topic, a short clock
FanoutMaxTime == 1
FanoutMaxSubscribe == 4
FanoutMaxFails == 4
\* the fair specification: one retry cycle under weak fairness
LiveMaxTime == 5
LiveMaxPublish == 1
LiveMaxFails == 1

\* one retry cycle of a message with two handlers
CycleMaxTime == 4
CycleMaxSubscribe == 2
CycleMaxFails == 4

\* the producer calls on two topics, the store failing or not
FacadeMaxTime == 1
FacadeMaxPublish == 3

\* the store going down and coming back while the queue runs
StoreMaxTime == 1
StoreMaxPublish == 2
StoreMaxFails == 1
StoreMaxOutages == 1

\* entries in the store that are not Messages
ForeignMaxTime == 1
ForeignMaxPublish == 2
ForeignMaxFails == 1

\* ------------------------------------------------------- program constants
TicksPerSec == 2
DefaultMaxRetries == 3
RetryBaseSeconds == 2

Topics == {"orders", "notify"}
OneTopic == {"orders"}
Payloads == {"x"}
Delays == 1..MaxDelay

VARIABLES now, nextId, sent, maxWorkers, workerPool, handlers, ready,
          delayed, deadLetter, loops, held, tasks, sched, closed, closeRet, log,
          ret, storeUp, outages

vars == <<now, nextId, sent, maxWorkers, workerPool, handlers, ready,
          delayed, deadLetter, loops, held, tasks, sched, closed, closeRet, log,
          ret, storeUp, outages>>

\* ------------------------------------------------------------ pure helpers
\* time.Time.Unix(): whole seconds, truncated
Unix(t) == t \div TicksPerSec

\* a producer payload as json.Marshal(payload) leaves it
RawPayload(p) == [raw |-> p, wraps |-> <<>>]

\* bytes that json.Unmarshal rejects, and the test json.Unmarshal makes
Garbage == "{"
Decodes(data) == data.payload.raw # Garbage

\* an entry written to the store by something else than this code
ForeignEntry(id, topic, t, org, due) ==
  [id |-> id, topic |-> topic, payload |-> [raw |-> Garbage, wraps |-> <<>>],
   ts |-> t, retries |-> 0, maxRetries |-> 0, org |-> org, due |-> due]

Header(msg) ==
  [id |-> msg.id, topic |-> msg.topic, ts |-> msg.ts,
   retries |-> msg.retries, maxRetries |-> msg.maxRetries]

\* json.Marshal of a *Message passed as the payload argument: the whole
\* envelope becomes the payload
MarshalMessage(msg) ==
  [raw |-> msg.payload.raw, wraps |-> <<Header(msg)>> \o msg.payload.wraps]

\* json.Marshal of a json.RawMessage: the bytes themselves
MarshalRaw(payload) == payload

Message(id, topic, payload, ts, retries, maxRetries, org, due) ==
  [id |-> id, topic |-> topic, payload |-> payload, ts |-> ts,
   retries |-> retries, maxRetries |-> maxRetries, org |-> org, due |-> due]

\* faulty variant: an envelope that allows no retry
PublishMessageNoRetry(id, topic, payload, ts, org, due) ==
  Message(id, topic, payload, ts, 0, 0, org, due)

\* the envelope Publish builds
PublishMessage(id, topic, payload, ts, org, due) ==
  Message(id, topic, payload, ts, 0, DefaultMaxRetries, org, due)

\* the envelope PublishDelayed builds (Retries and MaxRetries are not set)
DelayedMessage(id, topic, payload, ts, org, due) ==
  Message(id, topic, payload, ts, 0, 0, org, due)

\* score := float64(time.Now().Add(delay).Unix())
Score(t, delay) == Unix(t + delay)

\* faulty variant: the same delay for every retry
RetryDelayFlat(retries) == RetryBaseSeconds * TicksPerSec

\* delay := time.Duration(msg.Retries) * time.Second * 2, in ticks
RetryDelay(retries) == retries * RetryBaseSeconds * TicksPerSec

\* client.LPush: new head of the list; client.BRPop takes the last element
LPush(list, e) == <<e>> \o list
Front(list) == SubSeq(list, 1, Len(list) - 1)
Last(list) == list[Len(list)]

\* faulty variant: the upper bound of the range is exclusive
DueStrict(t) == {z \in delayed : z.score >= 0 /\ z.score < Unix(t)}

\* ZRangeByScore(min 0, max now): members in score order, then member order
Due(t) == {z \in delayed : z.score >= 0 /\ z.score <= Unix(t)}

Before(a, b) ==
  \/ a.score < b.score
  \/ a.score = b.score /\ a.member.id <= b.member.id

RECURSIVE SortZ(_)
SortZ(S) ==
  IF S = {} THEN <<>>
  ELSE LET m == CHOOSE a \in S : \A b \in S : Before(a, b)
       IN <<m>> \o SortZ(S \ {m})

ZRangeByScore(t) == SortZ(Due(t))

SeqToSet(s) == {s[i] : i \in 1..Len(s)}

\* faulty variant: a cancelled context does not make the call fail
StoreFailsDown == ~storeUp

\* a store call made with the queue's own context returns an error: the
\* context is cancelled, or the store cannot be reached
StoreFails == closed \/ ~storeUp

\* ------------------------------------------------------------------- Init
\* NewRedisQueue(client, maxWorkers): a full pool and a running scheduler
Init ==
  /\ now = 0
  /\ nextId = 1
  /\ sent = <<>>
  /\ maxWorkers \in 0..MaxPool
  /\ workerPool = maxWorkers
  /\ handlers = [t \in Topics |-> <<>>]
  /\ ready = [t \in Topics |-> <<>>]
  /\ delayed = {}
  /\ deadLetter = [t \in Topics |-> <<>>]
  /\ loops = [t \in Topics |-> 0]
  /\ held = {}
  /\ tasks = {}
  /\ sched = [pc |-> "wait", batch |-> <<>>]
  /\ closed = FALSE
  /\ closeRet = FALSE
  /\ log = {}
  /\ ret = [op |-> "NewRedisQueue", topic |-> "", ok |-> TRUE]
  /\ storeUp = TRUE
  /\ outages = 0


\* ---------------------------------------------------------- store writes
\* the ready list of topic after Publish(ctx, topic, payload) at instant t
\* faulty variant: the envelope is pushed on the list of every topic
PublishPushAll(topic, payload, t, org, due) ==
  [u \in Topics |->
     LPush(ready[u], PublishMessage(nextId, topic, payload, t, org, due))]

\* the ready lists after Publish(ctx, topic, payload) at t
PublishPush(topic, payload, t, org, due) ==
  [ready EXCEPT ![topic] =
     LPush(@, PublishMessage(nextId, topic, payload, t, org, due))]

\* the delayed set after PublishDelayed(ctx, topic, payload, delay) at t
PublishDelayedAdd(topic, payload, delay, t, org) ==
  delayed \cup
    {[member |-> DelayedMessage(nextId, topic, payload, t, org, t + delay),
      score |-> Score(t, delay)]}

Failures == Cardinality({r \in log : r.err})
RECURSIVE SumOver(_, _)
SumOver(f, S) ==
  IF S = {} THEN 0
  ELSE LET t == CHOOSE x \in S : TRUE IN f[t] + SumOver(f, S \ {t})

Subscriptions == SumOver([t \in Topics |-> Len(handlers[t])], Topics)
Running(t) == loops[t] + Cardinality({e \in held : e.topic = t})
\* rq.wg: one per consume goroutine, one for the scheduler
WaitGroup ==
  SumOver(loops, Topics) + Cardinality(held)
    + (IF sched.pc = "exited" THEN 0 ELSE 1)

\* ------------------------------------------------------------ environment
Tick(maxTime) ==
  /\ now < maxTime
  /\ now' = now + 1
  /\ UNCHANGED <<nextId, sent, maxWorkers, workerPool, handlers, ready,
                 delayed, deadLetter, loops, held, tasks, sched, closed,
                 closeRet, log,
                 ret, storeUp, outages>>

\* ----------------------------------------------------------------- facade
Publish(topic, p, maxPublish) ==
  /\ Len(sent) < maxPublish
  /\ storeUp
  /\ ready' = PublishPush(topic, RawPayload(p), now, Len(sent) + 1, 0)
  /\ nextId' = nextId + 1
  /\ sent' = Append(sent, RawPayload(p))
  /\ ret' = [op |-> "Publish", topic |-> topic, ok |-> TRUE]
  /\ UNCHANGED <<now, maxWorkers, workerPool, handlers, delayed, deadLetter,
                 loops, held, tasks, sched, closed, closeRet, log,
                 storeUp, outages>>

PublishDelayed(topic, p, delay, maxPublish) ==
  /\ Len(sent) < maxPublish
  /\ storeUp
  /\ delayed' = PublishDelayedAdd(topic, RawPayload(p), delay, now, Len(sent) + 1)
  /\ nextId' = nextId + 1
  /\ sent' = Append(sent, RawPayload(p))
  /\ ret' = [op |-> "PublishDelayed", topic |-> topic, ok |-> TRUE]
  /\ UNCHANGED <<now, maxWorkers, workerPool, handlers, ready, deadLetter,
                 loops, held, tasks, sched, closed, closeRet, log,
                 storeUp, outages>>

\* Publish when client.LPush returns an error: nothing is written and the
\* error goes back to the caller
PublishFail(topic, p, maxPublish) ==
  /\ Len(sent) < maxPublish
  /\ nextId' = nextId + 1
  /\ sent' = Append(sent, RawPayload(p))
  /\ ret' = [op |-> "Publish", topic |-> topic, ok |-> FALSE]
  /\ UNCHANGED <<now, maxWorkers, workerPool, handlers, ready, delayed,
                 deadLetter, loops, held, tasks, sched, closed, closeRet, log,
                 storeUp, outages>>

\* PublishDelayed when client.ZAdd returns an error
PublishDelayedFail(topic, p, maxPublish) ==
  /\ Len(sent) < maxPublish
  /\ nextId' = nextId + 1
  /\ sent' = Append(sent, RawPayload(p))
  /\ ret' = [op |-> "PublishDelayed", topic |-> topic, ok |-> FALSE]
  /\ UNCHANGED <<now, maxWorkers, workerPool, handlers, ready, delayed,
                 deadLetter, loops, held, tasks, sched, closed, closeRet, log,
                 storeUp, outages>>

\* another client pushes bytes that are not a Message on queue:<topic>
ForeignLPush(topic, maxPublish) ==
  /\ Len(sent) < maxPublish
  /\ storeUp
  /\ ready' = [ready EXCEPT ![topic] =
                 LPush(@, ForeignEntry(nextId, topic, now, Len(sent) + 1, 0))]
  /\ nextId' = nextId + 1
  /\ sent' = Append(sent, [raw |-> Garbage, wraps |-> <<>>])
  /\ UNCHANGED <<now, maxWorkers, workerPool, handlers, delayed, deadLetter,
                 loops, held, tasks, sched, closed, closeRet, log,
                 ret, storeUp, outages>>

\* another client adds such bytes to delayed_queue with a score
ForeignZAdd(topic, delay, maxPublish) ==
  /\ Len(sent) < maxPublish
  /\ storeUp
  /\ delayed' = delayed \cup
       {[member |-> ForeignEntry(nextId, topic, now, Len(sent) + 1,
                                 now + delay),
         score |-> Score(now, delay)]}
  /\ nextId' = nextId + 1
  /\ sent' = Append(sent, [raw |-> Garbage, wraps |-> <<>>])
  /\ UNCHANGED <<now, maxWorkers, workerPool, handlers, ready, deadLetter,
                 loops, held, tasks, sched, closed, closeRet, log,
                 ret, storeUp, outages>>

\* the store stops answering: every call returns an error from now on
StoreDown(maxOutages) ==
  /\ storeUp
  /\ outages < maxOutages
  /\ storeUp' = FALSE
  /\ outages' = outages + 1
  /\ UNCHANGED <<now, nextId, sent, maxWorkers, workerPool, handlers, ready,
                 delayed, deadLetter, loops, held, tasks, sched, closed,
                 closeRet, log, ret>>

\* the store answers again
StoreUp ==
  /\ ~storeUp
  /\ storeUp' = TRUE
  /\ UNCHANGED <<now, nextId, sent, maxWorkers, workerPool, handlers, ready,
                 delayed, deadLetter, loops, held, tasks, sched, closed,
                 closeRet, log, ret, outages>>

\* registers the handler and starts a consume goroutine, unconditionally;
\* the goroutine goes into its first BRPop, or returns at once when rq.ctx
\* is already cancelled
Subscribe(topic, maxSubscribe) ==
  /\ Subscriptions < maxSubscribe
  /\ handlers' = [handlers EXCEPT ![topic] = Append(@, Len(@) + 1)]
  /\ loops' = [loops EXCEPT ![topic] = IF closed THEN @ ELSE @ + 1]
  /\ UNCHANGED <<now, nextId, sent, maxWorkers, workerPool, ready,
                 delayed, deadLetter, held, tasks, sched, closed, closeRet, log,
                 ret, storeUp, outages>>

\* Close: rq.cancel(), then rq.wg.Wait()
Close ==
  /\ ~closed
  /\ closed' = TRUE
  /\ UNCHANGED <<now, nextId, sent, maxWorkers, workerPool, handlers,
                 ready, delayed, deadLetter, loops, held, tasks, sched,
                 closeRet, log,
                 ret, storeUp, outages>>

CloseReturn ==
  /\ closed
  /\ ~closeRet
  /\ WaitGroup = 0
  /\ closeRet' = TRUE
  /\ UNCHANGED <<now, nextId, sent, maxWorkers, workerPool, handlers,
                 ready, delayed, deadLetter, loops, held, tasks, sched,
                 closed, log,
                 ret, storeUp, outages>>

\* ---------------------------------------------------------- consumer loop
\* faulty variant: the entry is read but left on the list
ConsumePopKeep(topic) ==
  /\ storeUp
  /\ loops[topic] > 0
  /\ ready[topic] # <<>>
  /\ held' = held \cup {Last(ready[topic])}
  /\ loops' = [loops EXCEPT ![topic] = @ - 1]
  /\ UNCHANGED <<now, nextId, sent, maxWorkers, workerPool, handlers, ready,
                 delayed, deadLetter, tasks, sched, closed, closeRet, log,
                 ret, storeUp, outages>>

\* BRPop returned an entry: the loop now holds it.  The call blocks for up
\* to a second and is entered only while rq.ctx is not cancelled, but a call
\* that is already blocking when Close cancels rq.ctx can still return an
\* entry
ConsumePop(topic) ==
  /\ storeUp
  /\ loops[topic] > 0
  /\ ready[topic] # <<>>
  /\ held' = held \cup {Last(ready[topic])}
  /\ ready' = [ready EXCEPT ![topic] = Front(@)]
  /\ loops' = [loops EXCEPT ![topic] = @ - 1]
  /\ UNCHANGED <<now, nextId, sent, maxWorkers, workerPool, handlers,
                 delayed, deadLetter, tasks, sched, closed, closeRet, log,
                 ret, storeUp, outages>>

\* faulty variant: the goroutine is started without waiting for a token
ConsumeDispatchNoToken(e) ==
  /\ e \in held
  /\ workerPool' = workerPool - 1
  /\ held' = held \ {e}
  /\ tasks' = tasks \cup {[msg |-> e, hs |-> <<>>, i |-> 0, pc |-> "start"]}
  /\ loops' = [loops EXCEPT ![e.topic] = IF closed THEN @ ELSE @ + 1]
  /\ UNCHANGED <<now, nextId, sent, maxWorkers, handlers, ready, delayed,
                 deadLetter, sched, closed, closeRet, log,
                 ret, storeUp, outages>>

\* <-rq.workerPool, then go func(data): the loop goes back to its select,
\* and from there into the next BRPop, or returns when rq.ctx is cancelled
ConsumeDispatch(e) ==
  /\ e \in held
  /\ workerPool > 0
  /\ workerPool' = workerPool - 1
  /\ held' = held \ {e}
  /\ tasks' = tasks \cup {[msg |-> e, hs |-> <<>>, i |-> 0, pc |-> "start"]}
  /\ loops' = [loops EXCEPT ![e.topic] = IF closed THEN @ ELSE @ + 1]
  /\ UNCHANGED <<now, nextId, sent, maxWorkers, handlers, ready, delayed,
                 deadLetter, sched, closed, closeRet, log,
                 ret, storeUp, outages>>

\* the BRPop that was blocking returns without an entry (timeout or error),
\* then case <-rq.ctx.Done(): return
ConsumeExit(topic) ==
  /\ closed
  /\ loops[topic] > 0
  /\ loops' = [loops EXCEPT ![topic] = @ - 1]
  /\ UNCHANGED <<now, nextId, sent, maxWorkers, workerPool, handlers,
                 ready, delayed, deadLetter, held, tasks, sched, closed,
                 closeRet, log,
                 ret, storeUp, outages>>

\* ------------------------------------------------------ processing task
\* faulty variant: the handlers are called whatever Unmarshal returned
ProcessStartNoCheck(task) ==
  /\ task \in tasks
  /\ task.pc = "start"
  /\ tasks' = (tasks \ {task}) \cup
       {[task EXCEPT !.hs = handlers[task.msg.topic], !.i = 1, !.pc = "run"]}
  /\ UNCHANGED <<now, nextId, sent, maxWorkers, workerPool, handlers,
                 ready, delayed, deadLetter, loops, held, sched, closed,
                 closeRet, log, ret, storeUp, outages>>

\* json.Unmarshal, then processMessage reads rq.handlers[msg.Topic]; when
\* Unmarshal fails the goroutine returns without calling any handler
ProcessStart(task) ==
  /\ task \in tasks
  /\ task.pc = "start"
  /\ tasks' = (tasks \ {task}) \cup
       {[task EXCEPT !.hs = IF Decodes(task.msg)
                            THEN handlers[task.msg.topic] ELSE <<>>,
                     !.i = 1, !.pc = "run"]}
  /\ UNCHANGED <<now, nextId, sent, maxWorkers, workerPool, handlers,
                 ready, delayed, deadLetter, loops, held, sched, closed,
                 closeRet, log,
                 ret, storeUp, outages>>

Invocation(task, err) ==
  [org |-> task.msg.org,
   k |-> Cardinality({r \in log : r.org = task.msg.org}) + 1,
   h |-> task.hs[task.i], nh |-> Len(task.hs), msg |-> task.msg,
   err |-> err, at |-> now]

\* retryMessage: PublishDelayed(rq.ctx, msg.Topic, msg, delay); the write
\* fails once rq.ctx is cancelled and the error is dropped
RetryMessage(msg) ==
  IF StoreFails THEN delayed
  ELSE PublishDelayedAdd(msg.topic, MarshalMessage(msg),
                         RetryDelay(msg.retries), now, msg.org)

\* sendToDeadLetter: LPush(rq.ctx, "dead_letter:"+topic, record)
SendToDeadLetter(msg, h) ==
  IF StoreFails THEN deadLetter
  ELSE [deadLetter EXCEPT ![msg.topic] =
          LPush(@, [msg |-> msg, error |-> h, failedAt |-> now])]

\* one iteration of the handler loop of processMessage
ProcessHandler(task, err, maxFails) ==
  /\ task \in tasks
  /\ task.pc = "run"
  /\ task.i <= Len(task.hs)
  /\ err => Failures < maxFails
  /\ log' = log \cup {Invocation(task, err)}
  /\ IF err /\ task.msg.retries < task.msg.maxRetries
     THEN LET m == [task.msg EXCEPT !.retries = @ + 1]
          IN /\ delayed' = RetryMessage(m)
             /\ nextId' = nextId + 1
             /\ tasks' = (tasks \ {task}) \cup
                  {[task EXCEPT !.msg = m, !.i = @ + 1]}
             /\ UNCHANGED deadLetter
     ELSE /\ deadLetter' = IF err THEN SendToDeadLetter(task.msg, task.hs[task.i])
                           ELSE deadLetter
          /\ tasks' = (tasks \ {task}) \cup {[task EXCEPT !.i = @ + 1]}
          /\ UNCHANGED <<delayed, nextId>>
  /\ UNCHANGED <<now, sent, maxWorkers, workerPool, handlers, ready,
                 loops, held, sched, closed, closeRet,
                 ret, storeUp, outages>>

\* faulty variant: the goroutine ends without giving its token back
ProcessEndKeep(task) ==
  /\ task \in tasks
  /\ task.pc = "run"
  /\ task.i > Len(task.hs)
  /\ tasks' = tasks \ {task}
  /\ UNCHANGED <<now, nextId, sent, maxWorkers, workerPool, handlers, ready,
                 delayed, deadLetter, loops, held, sched, closed, closeRet,
                 log, ret, storeUp, outages>>

\* the deferred rq.workerPool <- struct{}{}
ProcessEnd(task) ==
  /\ task \in tasks
  /\ task.pc = "run"
  /\ task.i > Len(task.hs)
  /\ tasks' = tasks \ {task}
  /\ workerPool' = workerPool + 1
  /\ UNCHANGED <<now, nextId, sent, maxWorkers, handlers, ready, delayed,
                 deadLetter, loops, held, sched, closed, closeRet, log,
                 ret, storeUp, outages>>

\* ------------------------------------------------------ delayed scheduler
\* case <-ticker.C: ZRangeByScore(rq.ctx, "delayed_queue", 0, now)
SchedTick ==
  /\ sched.pc = "wait"
  /\ ~closed
  /\ storeUp
  /\ LET batch == ZRangeByScore(now)
     IN sched' = [pc |-> IF batch = <<>> THEN "wait" ELSE "publish",
                  batch |-> batch]
  /\ UNCHANGED <<now, nextId, sent, maxWorkers, workerPool, handlers,
                 ready, delayed, deadLetter, loops, held, tasks, closed,
                 closeRet, log,
                 ret, storeUp, outages>>

\* faulty variant: the rest of the batch is given up at the first member
\* that cannot be promoted
SchedPublishBreak ==
  /\ sched.pc = "publish"
  /\ LET m == Head(sched.batch).member
     IN IF ~Decodes(m) \/ StoreFails
        THEN /\ sched' = [pc |-> "wait", batch |-> <<>>]
             /\ UNCHANGED <<ready, nextId>>
        ELSE /\ ready' = PublishPush(m.topic, MarshalRaw(m.payload), now,
                                     m.org, m.due)
             /\ nextId' = nextId + 1
             /\ sched' = [sched EXCEPT !.pc = "zrem"]
  /\ UNCHANGED <<now, sent, maxWorkers, workerPool, handlers, delayed,
                 deadLetter, loops, held, tasks, closed, closeRet, log,
                 ret, storeUp, outages>>

\* faulty variant: a member whose Publish failed is removed all the same
SchedPublishDrop ==
  /\ sched.pc = "publish"
  /\ LET m == Head(sched.batch).member
     IN IF ~Decodes(m) \/ StoreFails
        THEN /\ sched' = [pc |-> IF Tail(sched.batch) = <<>> THEN "wait"
                                 ELSE "publish",
                          batch |-> Tail(sched.batch)]
             /\ delayed' = {z \in delayed : z.member # m}
             /\ UNCHANGED <<ready, nextId>>
        ELSE /\ ready' = PublishPush(m.topic, MarshalRaw(m.payload), now,
                                     m.org, m.due)
             /\ nextId' = nextId + 1
             /\ sched' = [sched EXCEPT !.pc = "zrem"]
             /\ UNCHANGED delayed
  /\ UNCHANGED <<now, sent, maxWorkers, workerPool, handlers,
                 deadLetter, loops, held, tasks, closed, closeRet, log,
                 ret, storeUp, outages>>

\* json.Unmarshal(msgData), rq.Publish(rq.ctx, msg.Topic, msg.Payload); on
\* either error: continue
SchedPublish ==
  /\ sched.pc = "publish"
  /\ LET m == Head(sched.batch).member
     IN IF ~Decodes(m) \/ StoreFails
        THEN /\ sched' = [pc |-> IF Tail(sched.batch) = <<>> THEN "wait"
                                 ELSE "publish",
                          batch |-> Tail(sched.batch)]
             /\ UNCHANGED <<ready, nextId>>
        ELSE /\ ready' = PublishPush(m.topic, MarshalRaw(m.payload), now,
                                     m.org, m.due)
             /\ nextId' = nextId + 1
             /\ sched' = [sched EXCEPT !.pc = "zrem"]
  /\ UNCHANGED <<now, sent, maxWorkers, workerPool, handlers, delayed,
                 deadLetter, loops, held, tasks, closed, closeRet, log,
                 ret, storeUp, outages>>

\* rq.client.ZRem(rq.ctx, key, msgData)
SchedZRem ==
  /\ sched.pc = "zrem"
  /\ delayed' = IF StoreFails THEN delayed
                ELSE {z \in delayed : z.member # Head(sched.batch).member}
  /\ sched' = [pc |-> IF Tail(sched.batch) = <<>> THEN "wait" ELSE "publish",
               batch |-> Tail(sched.batch)]
  /\ UNCHANGED <<now, nextId, sent, maxWorkers, workerPool, handlers,
                 ready, deadLetter, loops, held, tasks, closed, closeRet, log,
                 ret, storeUp, outages>>

SchedExit ==
  /\ sched.pc = "wait"
  /\ closed
  /\ sched' = [pc |-> "exited", batch |-> <<>>]
  /\ UNCHANGED <<now, nextId, sent, maxWorkers, workerPool, handlers,
                 ready, delayed, deadLetter, loops, held, tasks, closed,
                 closeRet, log,
                 ret, storeUp, outages>>

\* ------------------------------------------------------------------- Next
NextWith(topics, maxTime, maxPublish, maxSubscribe, maxFails) ==
  \/ Tick(maxTime)
  \/ \E t \in topics, p \in Payloads : Publish(t, p, maxPublish)
  \/ \E t \in topics, p \in Payloads, d \in Delays :
       PublishDelayed(t, p, d, maxPublish)
  \/ \E t \in topics : Subscribe(t, maxSubscribe)
  \/ Close
  \/ CloseReturn
  \/ \E t \in topics : ConsumePop(t)
  \/ \E e \in held : ConsumeDispatch(e)
  \/ \E t \in topics : ConsumeExit(t)
  \/ \E task \in tasks : ProcessStart(task)
  \/ \E task \in tasks, err \in BOOLEAN : ProcessHandler(task, err, maxFails)
  \/ \E task \in tasks : ProcessEnd(task)
  \/ SchedTick
  \/ SchedPublish
  \/ SchedZRem
  \/ SchedExit

Next == NextWith(OneTopic, MaxTime, MaxPublish, MaxSubscribe, MaxFails)

Spec == Init /\ [][Next]_vars

\* one handler and one message followed through its retry cycles
RetryNext == NextWith(OneTopic, RetryMaxTime, 1, 1, RetryMaxFails)

\* NewRedisQueue(client, 1)
OneWorkerInit == Init /\ maxWorkers = 1

RetrySpec == OneWorkerInit /\ [][RetryNext]_vars

\* one message fanned out to many handlers
FanoutNext ==
  NextWith(OneTopic, FanoutMaxTime, 1, FanoutMaxSubscribe, FanoutMaxFails)

FanoutSpec == OneWorkerInit /\ [][FanoutNext]_vars

\* one message, two handlers, followed through one retry cycle
CycleNext ==
  NextWith(OneTopic, CycleMaxTime, 1, CycleMaxSubscribe, CycleMaxFails)

CycleSpec == OneWorkerInit /\ [][CycleNext]_vars

\* two topics, and producer calls whose store write may fail
FacadeNext ==
  \/ NextWith(Topics, FacadeMaxTime, FacadeMaxPublish, 1, 0)
  \/ \E t \in Topics, p \in Payloads : PublishFail(t, p, FacadeMaxPublish)
  \/ \E t \in Topics, p \in Payloads :
       PublishDelayedFail(t, p, FacadeMaxPublish)

FacadeSpec == OneWorkerInit /\ [][FacadeNext]_vars

\* one worker, one topic, and a store that fails and recovers
StoreNext ==
  \/ NextWith(OneTopic, StoreMaxTime, StoreMaxPublish, 1, StoreMaxFails)
  \/ StoreDown(StoreMaxOutages)
  \/ StoreUp

StoreSpec == OneWorkerInit /\ [][StoreNext]_vars

\* one topic, with entries in the store that this code did not write
ForeignNext ==
  \/ NextWith(OneTopic, ForeignMaxTime, ForeignMaxPublish, 1, ForeignMaxFails)
  \/ \E t \in OneTopic : ForeignLPush(t, ForeignMaxPublish)
  \/ \E t \in OneTopic, d \in Delays : ForeignZAdd(t, d, ForeignMaxPublish)

ForeignSpec == Init /\ [][ForeignNext]_vars

\* weak fairness of every step of the goroutines (the Go scheduler runs a
\* runnable goroutine, BRPop returns an entry of a non-empty list, the
\* ticker fires every second); the clock and the callers are not forced
Fairness ==
  /\ WF_vars(\E t \in Topics : ConsumePop(t))
  /\ WF_vars(\E e \in held : ConsumeDispatch(e))
  /\ WF_vars(\E t \in Topics : ConsumeExit(t))
  /\ WF_vars(\E task \in tasks : ProcessStart(task))
  /\ WF_vars(\E task \in tasks, err \in BOOLEAN :
               ProcessHandler(task, err, LiveMaxFails))
  /\ WF_vars(\E task \in tasks : ProcessEnd(task))
  /\ WF_vars(SchedTick)
  /\ WF_vars(SchedPublish)
  /\ WF_vars(SchedZRem)
  /\ WF_vars(SchedExit)
  /\ WF_vars(CloseReturn)

LiveNext == NextWith(OneTopic, LiveMaxTime, LiveMaxPublish, 1, LiveMaxFails)

LiveSpec == Init /\ [][LiveNext]_vars /\ Fairness

\* ------------------------------------------------------------- properties
ReadyEntries == UNION {SeqToSet(ready[t]) : t \in Topics}
DeadLetters == UNION {SeqToSet(deadLetter[t]) : t \in Topics}
Records(o) == {r \in log : r.org = o}
\* a processing task still holds its envelope while it has handlers to call
Active == {task \in tasks : task.pc = "start" \/ task.i <= Len(task.hs)}

\* the places one published message is in: ready lists, the delayed set,
\* in flight (a loop or a task holds it), dead-letter lists
Copies(o) ==
    Cardinality({e \in ReadyEntries : e.org = o})
  + Cardinality({z \in delayed : z.member.org = o})
  + Cardinality({e \in held : e.org = o})
  + Cardinality({task \in Active : task.msg.org = o})
  + Cardinality({d \in DeadLetters : d.msg.org = o})

\* e is the envelope id, or a retry of it (the envelope is nested in e's payload)
IsCopyOf(e, id) ==
  \/ e.id = id
  \/ \E i \in DOMAIN e.payload.wraps : e.payload.wraps[i].id = id

\* C1: with one handler that fails on every invocation, a message is handled
\* at most max_retries + 1 times; the failure number max_retries + 1 leaves
\* exactly one dead-letter record and no ready entry; before it there is none
C1_RetryThenDeadLetter ==
  \A o \in 1..Len(sent) :
    LET R == Records(o)
        DL == {d \in DeadLetters : d.msg.org = o}
    IN (R # {} /\ \A r \in R : r.nh = 1 /\ r.err) =>
         /\ Cardinality(R) <= DefaultMaxRetries + 1
         /\ Cardinality(R) = DefaultMaxRetries + 1 =>
              /\ Cardinality(DL) = 1
              /\ \A e \in ReadyEntries : e.org # o
         /\ Cardinality(R) <= DefaultMaxRetries => DL = {}

\* C2: every envelope handed to a handler for a message has the id, the topic
\* and the created_at of the envelope of the first delivery of that message
C2_IdentityPreserved ==
  \A r1 \in log, r2 \in log :
    (r1.org = r2.org /\ r1.k = 1) =>
      /\ r2.msg.id = r1.msg.id
      /\ r2.msg.topic = r1.msg.topic
      /\ r2.msg.ts = r1.msg.ts

\* C3: while the store works (the queue's context is not cancelled) a
\* published message is never in two places, nor twice in one
C3_OnePlace ==
  ~closed => \A o \in 1..Len(sent) : Copies(o) <= 1

\* C4: at most maxWorkers processing tasks are in flight
C4_PoolBound ==
  Cardinality(tasks) <= maxWorkers

\* C4 witness: a saturated pool of N >= 1 with a popped envelope waiting
C4_Witness ==
  /\ maxWorkers >= 1
  /\ Cardinality(tasks) = maxWorkers
  /\ held # {}

\* C5: a message pushed by Publish onto the ready list of a topic with a
\* subscribed handler is eventually handed to a handler, unless the queue
\* is closed
C5_Delivery ==
  \A o \in 1..LiveMaxPublish :
    (\E e \in ReadyEntries :
        e.org = o /\ e.due = 0 /\ handlers[e.topic] # <<>>)
      ~> (closed \/ Records(o) # {})

\* C6: nothing published with a delay is on a ready list, or handed to a
\* handler, before the instant publish time + delay
C6_NotBeforeDue ==
  /\ \A e \in ReadyEntries : e.ts >= e.due
  /\ \A r \in log : r.at >= r.msg.due

\* C7: a member of the delayed set whose score is <= the current time is
\* eventually removed from it (after its promotion), unless the queue is closed
LiveIds == 1..(2 * (LiveMaxPublish + LiveMaxFails))

C8_PayloadUnchanged ==
  \A r \in log : r.msg.payload = sent[r.org]

\* C9: no envelope has two dead-letter records, a dead-lettered envelope has
\* retries >= max_retries, and no copy of it is on a ready list or in the
\* delayed set
C9_DeadLetterOnce ==
  /\ \A t \in Topics : \A i \in DOMAIN deadLetter[t], j \in DOMAIN deadLetter[t] :
       i # j => deadLetter[t][i].msg.id # deadLetter[t][j].msg.id
  /\ \A d \in DeadLetters :
       /\ d.msg.retries >= d.msg.maxRetries
       /\ \A e \in ReadyEntries : ~IsCopyOf(e, d.msg.id)
       /\ \A z \in delayed : ~IsCopyOf(z.member, d.msg.id)

\* C10: at most one consumer loop runs for each topic
C10_OneLoopPerTopic ==
  \A t \in Topics : Running(t) <= 1

\* C11: the handlers of one topic do not share retry state: within one
\* processing pass over an envelope, a failing handler's retry-or-dead-letter
\* decision is taken on the same retries count that every earlier handler
\* of that pass was invoked with
C11_NoSharedRetryState ==
  \A r1 \in log, r2 \in log :
    (r1.msg.id = r2.msg.id /\ r1.h < r2.h /\ r2.err)
      => r2.msg.retries = r1.msg.retries

\* C12: once Close has been called (and every handler returns), Close
\* eventually returns, whatever the pool size and however many tokens are
\* held at the time of the call
C12_CloseReturns == closed ~> closeRet

\* C13: when Close has returned, every goroutine and task the queue had
\* started has exited: no loop holds an envelope, the scheduler is gone and
\* no processing task is left, so that no handler invocation starts or is
\* still running after the return (a loop started by a Subscribe that comes
\* after the return is not counted)
C13_QuiescentAfterClose ==
  closeRet =>
    /\ tasks = {}
    /\ held = {}
    /\ sched.pc = "exited"

\* C14: the retries value of a message never decreases from one handler
\* invocation to the next one
C14_RetriesMonotone ==
  \A r1 \in log, r2 \in log :
    (r1.org = r2.org /\ r1.k < r2.k) => r1.msg.retries <= r2.msg.retries

\* C15: on a one-handler topic, a message sent with Publish whose handler
\* fails k <= max_retries times and then succeeds is handled exactly k + 1
\* times (the success is its last invocation), has no dead-letter record,
\* and after the success is on no ready list and not in the delayed set
C15_FailThenSucceed ==
  \A o \in 1..Len(sent) :
    LET R == Records(o)
        S == {r \in R : ~r.err}
    IN (/\ S # {}
        /\ \A r \in R : r.nh = 1 /\ (r.k = 1 => r.msg.due = 0)
        /\ Cardinality(R \ S) <= DefaultMaxRetries) =>
         /\ Cardinality(S) = 1
         /\ \A r \in R, s \in S : r.k <= s.k
         /\ \A d \in DeadLetters : d.msg.org # o
         /\ \A e \in ReadyEntries : e.org # o
         /\ \A z \in delayed : z.member.org # o

\* C16: while every token of a non-empty pool is held no consumer loop
\* removes an entry from a ready list: a published message stays in the list
\* until a token is free
C16_NoPopWhileSaturated ==
  [][(maxWorkers >= 1 /\ workerPool = 0)
       => \A t \in Topics : Len(ready'[t]) >= Len(ready[t])]_vars

\* C17: a pool size of 0 is rejected by NewRedisQueue: there is no running
\* queue with a zero-size pool in which a consumer loop has popped an
\* envelope that it can never dispatch
C17_ZeroPoolRejected ==
  maxWorkers = 0 => held = {}

\* C18: a Publish on topic T that succeeds puts exactly one new envelope,
\* with retries 0 and the default max_retries, on T's ready list and leaves
\* the ready lists of the other topics, the delayed set, the dead-letter
\* lists and the handler registry as they were; a Publish that returns an
\* error leaves all of them unchanged; and Publish can always be called,
\* whatever the consumers and the worker tokens do
C18_PublishFrame ==
  /\ [][(Len(sent') = Len(sent) + 1 /\ ret'.op = "Publish") =>
          LET t == ret'.topic
          IN /\ ret'.ok =>
                  /\ ready'[t] # <<>>
                  /\ ready'[t] = <<Head(ready'[t])>> \o ready[t]
                  /\ Head(ready'[t]).topic = t
                  /\ Head(ready'[t]).payload = sent'[Len(sent')]
                  /\ Head(ready'[t]).retries = 0
                  /\ Head(ready'[t]).maxRetries = DefaultMaxRetries
                  /\ \A e \in ReadyEntries : e.id # Head(ready'[t]).id
             /\ ~ret'.ok => ready'[t] = ready[t]
             /\ \A u \in Topics \ {t} : ready'[u] = ready[u]
             /\ UNCHANGED <<delayed, deadLetter, handlers>>]_vars
  /\ [](Len(sent) < FacadeMaxPublish =>
          ENABLED (\E t \in Topics, p \in Payloads :
                     Publish(t, p, FacadeMaxPublish)))

\* C18 witness: a Publish has just succeeded on a topic while the other
\* topic's ready list and the delayed set are not empty and the only worker
\* token is held
C18_Witness ==
  /\ ret.op = "Publish" /\ ret.ok
  /\ ready[ret.topic] # <<>>
  /\ Head(ready[ret.topic]).org = Len(sent)
  /\ \E u \in Topics \ {ret.topic} : ready[u] # <<>>
  /\ delayed # {}
  /\ workerPool = 0

\* C19: a PublishDelayed(T, p, d) that succeeds adds exactly one member to
\* the delayed set, the envelope Publish would build (retries 0 and the
\* default max_retries) with score now + d in whole seconds, and adds
\* nothing to a ready list
C19_PublishDelayedFrame ==
  [][(Len(sent') = Len(sent) + 1 /\ ret'.op = "PublishDelayed" /\ ret'.ok) =>
       /\ \E z \in delayed' \ delayed :
            /\ delayed' = delayed \cup {z}
            /\ z.member.topic = ret'.topic
            /\ z.member.payload = sent'[Len(sent')]
            /\ z.member.retries = 0
            /\ z.member.maxRetries = DefaultMaxRetries
            /\ z.score = Unix(z.member.due)
            /\ z.member.due > now
       /\ ready' = ready]_vars

\* C20: the entry the scheduler pushes on a ready list when it promotes a
\* member of the delayed set is that member's own envelope: same id, same
\* retries, same max_retries and same created_at
C20_PromotionKeepsEnvelope ==
  [][(sched.pc = "publish" /\ sched'.pc = "zrem") =>
       LET m == Head(sched.batch).member
           e == Head(ready'[m.topic])
       IN /\ e.id = m.id
          /\ e.retries = m.retries
          /\ e.maxRetries = m.maxRetries
          /\ e.ts = m.ts]_vars

\* C21: the scheduler removes a member from the delayed set only in the ZRem
\* that follows a successful Publish of that member to its ready list; when
\* the Publish of a due member fails the delayed set is left as it is and
\* the member is still due, so that a later tick reads it again
C21_RemoveOnlyAfterPublish ==
  [][/\ (sched.pc = "publish" /\ sched'.pc = "zrem") =>
          LET m == Head(sched.batch).member
          IN /\ ready'[m.topic] = <<Head(ready'[m.topic])>> \o ready[m.topic]
             /\ Head(ready'[m.topic]).org = m.org
             /\ Head(ready'[m.topic]).payload = m.payload
     /\ (sched.pc = "publish" /\ sched' # sched /\ sched'.pc # "zrem") =>
          /\ delayed' = delayed
          /\ ready' = ready
          /\ Head(sched.batch) \in Due(now) \cap delayed'
     /\ (\E z \in delayed : z \notin delayed') =>
          /\ sched.pc = "zrem"
          /\ delayed \ delayed' = {Head(sched.batch)}]_vars

\* C21 witness: the store is down and the queue open, the scheduler has gone
\* past a due member whose Publish failed (no copy of the message was ever
\* pushed) and is at a later member of the same batch: the first one is
\* still in the delayed set
C21_Witness ==
  /\ ~storeUp /\ ~closed
  /\ sched.pc = "publish"
  /\ \E z \in Due(now) \cap delayed :
       /\ \A i \in DOMAIN sched.batch :
            /\ z.member.id < sched.batch[i].member.id
            /\ z.score <= sched.batch[i].score
       /\ \A e \in ReadyEntries \cup held : e.org # z.member.org
       /\ \A task \in tasks : task.msg.org # z.member.org
       /\ Records(z.member.org) = {}

\* C22: the tokens in the pool plus the tokens held by processing tasks are
\* always maxWorkers; a task that ends, after a handler success, a handler
\* failure or a failed deserialization, gives back exactly one token, and
\* the pool always has room for it
C22_TokenConservation ==
  /\ [](/\ workerPool \in 0..maxWorkers
        /\ workerPool + Cardinality(tasks) = maxWorkers
        /\ tasks # {} => workerPool < maxWorkers)
  /\ [][/\ (\E task \in tasks : task \notin tasks' /\
              \A other \in tasks' : other.msg.id # task.msg.id) =>
             workerPool' = workerPool + 1
        /\ workerPool' > workerPool =>
             /\ workerPool' = workerPool + 1
             /\ Cardinality(tasks') = Cardinality(tasks) - 1]_vars

\* C22 witness: a pool of two tokens is full again after an undecodable
\* entry was popped and dropped and a handler invocation failed
C22_Witness ==
  /\ maxWorkers = MaxPool
  /\ workerPool = maxWorkers
  /\ tasks = {} /\ held = {}
  /\ \E r \in log : r.err
  /\ \E o \in 1..Len(sent) :
       /\ sent[o].raw = Garbage
       /\ \A e \in ReadyEntries : e.org # o
       /\ \A z \in delayed : z.member.org # o

C24_OncePerHandler ==
  /\ \A r1 \in log, r2 \in log :
       (r1.msg.id = r2.msg.id /\ r1.h = r2.h) => r1 = r2
  /\ \A r \in log :
       /\ r.nh <= Len(handlers[r.msg.topic])
       /\ \A e \in ReadyEntries \cup held : e.id # r.msg.id
       /\ LET done == {q.h : q \in {x \in log : x.msg.id = r.msg.id}}
              T == {task \in tasks : task.msg.id = r.msg.id}
          IN /\ Cardinality(T) <= 1
             /\ \A task \in T :
                  done = {task.hs[j] : j \in 1..(task.i - 1)}
             /\ T = {} => done = {handlers[r.msg.topic][j] : j \in 1..r.nh}
  /\ \A e \in held : \A task \in tasks : task.msg.id # e.id

\* C24 witness: Subscribe was called twice for the topic (two handlers, two
\* loops); an entry was processed to the end: the first handler failed and
\* the second was still invoked, once each
C24_Witness ==
  \E r1 \in log, r2 \in log :
    /\ r1.msg.id = r2.msg.id
    /\ r1.nh = 2 /\ r1.h = 1 /\ r1.err
    /\ r2.h = 2
    /\ \A task \in tasks : task.msg.id # r1.msg.id
    /\ Cardinality({r \in log : r.msg.id = r1.msg.id}) = 2

\* C25: a popped ready-list entry that does not deserialize is dropped: no
\* handler is invoked with it, it adds nothing to the delayed set or to a
\* dead-letter list, its processing task gives its token back, and the
\* consumer loop that popped it goes back to popping (unless the queue is
\* closed)
C25_UndecodableDropped ==
  /\ [](/\ \A r \in log : Decodes(r.msg)
        /\ \A d \in DeadLetters : Decodes(d.msg)
        /\ \A z \in delayed : ~Decodes(z.member) => z.member.due > z.member.ts
        /\ \A task \in tasks :
             (~Decodes(task.msg) /\ task.pc = "run") => task.hs = <<>>)
  /\ [][/\ \A e \in held :
             (~Decodes(e) /\ e \notin held') =>
               /\ ~closed => loops'[e.topic] = loops[e.topic] + 1
               /\ \E task \in tasks' : task.msg = e
        /\ \A task \in tasks :
             (~Decodes(task.msg) /\ task \notin tasks') =>
               /\ log' = log
               /\ delayed' = delayed
               /\ deadLetter' = deadLetter
               /\ ready' = ready
               /\ (\A other \in tasks' : other.msg # task.msg) =>
                    workerPool' = workerPool + 1]_vars

\* C25 witness: an undecodable entry was pushed on the ready list, popped
\* and dropped: it is nowhere any more, no handler was invoked, there is no
\* dead-letter record, every token is back and the loop is running
C25_Witness ==
  /\ ~closed
  /\ maxWorkers >= 1 /\ workerPool = maxWorkers
  /\ log = {} /\ DeadLetters = {}
  /\ \E t \in Topics : handlers[t] # <<>> /\ loops[t] = Len(handlers[t])
  /\ \E o \in 1..Len(sent) :
       /\ sent[o].raw = Garbage
       /\ \A e \in ReadyEntries \cup held : e.org # o
       /\ \A z \in delayed : z.member.org # o
       /\ \A task \in tasks : task.msg.org # o

\* C26 as claimed: once Close has cancelled the queue's context no entry is
\* removed from a ready list any more, and the scheduler pushes no member on
\* a ready list and removes none from the delayed set
C26_NothingAfterCancel ==
  [][closed =>
       /\ \A t \in Topics :
            /\ Len(ready'[t]) >= Len(ready[t])
            /\ Len(ready'[t]) > Len(ready[t]) => Len(sent') = Len(sent) + 1
       /\ delayed \subseteq delayed']_vars

\* C26 amended: once Close has cancelled the queue's context no consumer
\* loop starts a new BRPop; only a loop whose BRPop was already blocking can
\* still remove an entry, one at most, and it does not come back; the
\* scheduler pushes no member on a ready list and removes none from the
\* delayed set
C26_NoNewPopAfterCancel ==
  [][closed =>
       /\ \A t \in Topics :
            /\ loops'[t] <= loops[t]
            /\ Len(ready'[t]) < Len(ready[t]) =>
                 /\ Len(ready'[t]) = Len(ready[t]) - 1
                 /\ loops'[t] = loops[t] - 1
            /\ Len(ready'[t]) > Len(ready[t]) => Len(sent') = Len(sent) + 1
       /\ delayed \subseteq delayed']_vars

\* C26 witness: after Close the scheduler and the loops are gone while a due
\* member is still in the delayed set and an entry is still on the ready
\* list of a subscribed topic
C26_Witness ==
  /\ closed
  /\ sched.pc = "exited"
  /\ Due(now) # {}
  /\ held = {}
  /\ \E t \in Topics :
       handlers[t] # <<>> /\ loops[t] = 0 /\ ready[t] # <<>>

\* C27: every entry on a ready list was built by Publish, and every envelope
\* a handler is invoked with has retries = 0 and max_retries = 3, on a first
\* delivery, on a delayed delivery and after any number of retries
C27_AlwaysFreshEnvelope ==
  /\ \A e \in ReadyEntries :
       e.retries = 0 /\ e.maxRetries = DefaultMaxRetries
  /\ \A r \in log :
       r.msg.retries = 0 /\ r.msg.maxRetries = DefaultMaxRetries

C29_ShutdownKeepsFailed ==
  \A r \in log :
    r.err =>
      \/ \E z \in delayed :
           z.member.id # r.msg.id /\ IsCopyOf(z.member, r.msg.id)
      \/ \E d \in DeadLetters : d.msg.id = r.msg.id
      \/ \E e \in ReadyEntries \cup held :
           e.id # r.msg.id /\ IsCopyOf(e, r.msg.id)
      \/ \E task \in tasks :
           task.msg.id # r.msg.id /\ IsCopyOf(task.msg, r.msg.id)
      \/ \E q \in log : q.msg.id # r.msg.id /\ IsCopyOf(q.msg, r.msg.id)

\* C30: a member of the delayed set that does not deserialize is never
\* removed from the set and never promoted; every tick that finds it due
\* reads it again, and the scheduler goes on with the members that follow
\* it in the same batch
C30_UndecodableMemberStays ==
  /\ [](\A z \in delayed :
          ~Decodes(z.member) =>
            /\ \A e \in ReadyEntries \cup held : e.org # z.member.org
            /\ \A task \in tasks : task.msg.org # z.member.org
            /\ Records(z.member.org) = {})
  /\ [][/\ \A z \in delayed : ~Decodes(z.member) => z \in delayed'
        /\ (sched.pc = "wait" /\ sched'.pc = "publish") =>
             \A z \in Due(now) : z \in SeqToSet(sched'.batch)
        /\ (sched.pc = "publish" /\ sched' # sched
              /\ ~Decodes(Head(sched.batch).member)) =>
             /\ sched'.batch = Tail(sched.batch)
             /\ sched'.pc = IF Tail(sched.batch) = <<>> THEN "wait"
                            ELSE "publish"
             /\ ready' = ready
             /\ delayed' = delayed]_vars

\* C30 witness: the scheduler has finished a batch that began with an
\* undecodable member: that member is still in the delayed set, still due,
\* and the member that followed it has been promoted and removed
C30_Witness ==
  /\ ~closed /\ storeUp
  /\ sched.pc = "wait"
  /\ \E z \in Due(now) :
       /\ ~Decodes(z.member)
       /\ \E e \in ReadyEntries :
            /\ Decodes(e)
            /\ e.due > 0
            /\ e.org > z.member.org
            /\ Unix(e.due) >= z.score
            /\ \A y \in delayed : y.member.org # e.org

====
